---- MODULE Spec2Model ----
(***************************************************************************)
(* Controller enablement at start-up (railgun/manager/manager.go) and the  *)
(* admission validator of Kong entities (package admission).               *)
(*                                                                         *)
(* Texts (error messages, rejection reasons) are sequences of fragments:   *)
(* Go's string concatenation is \o, the empty string is <<>>.  An error    *)
(* value is <<"error">> \o its text; the nil error is <<>>.                *)
(***************************************************************************)
EXTENDS Integers, Sequences, FiniteSets, TLC

\* Longest list of ControllerDefs the walk is checked on.
MaxControllers == 3

VARIABLES
    controllers,    \* Run: the []ControllerDef built at manager.go:233-334
    rpc,            \* Run: where the call of Run stands
    resolved,       \* Run: what each finished loop iteration did, in order
    mgrControllers, \* the controllers set up with the manager (ctrl.Manager)
    runErr,         \* Run: the error Run returned (Nil: none, or not yet)
    mgrStarted,     \* mgr.Start was called
    active,         \* admission: the callers that may issue requests
    vpc,            \* admission: per caller, where its validation call stands
    call,           \* admission: per caller, the operation and its argument
    plugin,         \* ValidatePlugin: per caller, the kong.Plugin it assembles
    remoteCalls,    \* per caller, requests its call sent to the Kong Admin API
    storeReads,     \* per caller, secrets its call read through the Store
    replies,        \* per caller, what the collaborators returned to its call
    credTypeToFields, \* the package's table of the fields each credential type needs
    outcome,        \* per caller, the (bool, string, error) its call returned
    store,          \* the secrets in the cluster object store
    spc,            \* getOrCreateConfigSecret: per caller, where its call stands
    targetNsn,      \* getOrCreateConfigSecret: per caller, the argument targetNsn
    secretObj,      \* getOrCreateConfigSecret: per caller, its local *corev1.Secret
    storeCalls,     \* per caller, the calls of c.Get and c.Create its call made
    result,         \* per caller, the (*corev1.Secret, bool, error) its call returned
    earlier         \* per caller, the arguments and results of its finished calls

mgrVars == <<controllers, rpc, resolved, mgrControllers, runErr, mgrStarted>>
admVars == <<active, vpc, call, plugin, remoteCalls, storeReads, replies, credTypeToFields, outcome>>
secVars == <<store, spc, targetNsn, secretObj, storeCalls, result, earlier>>
vars == <<mgrVars, admVars, secVars>>

----------------------------------------------------------------------------
\* Errors and texts

Nil == <<>>

\* fmt.Errorf(format, ...): an error whose text is the formatted text.
Errorf(text) == <<"error">> \o text

\* err.Error()
ErrorText(err) == Tail(err)

\* the %q verb: the operand in double quotes
Quoted(s) == <<"\"", s, "\"">>

----------------------------------------------------------------------------
\* railgun/manager/manager.go

EnablementStatusEnabled == "enabled"
EnablementStatusDisabled == "disabled"
EnablementStatusAuto == "auto"
EnablementStatus == {EnablementStatusEnabled, EnablementStatusDisabled, EnablementStatusAuto}

\* The concrete types of the wrapped reconcilers; the i-th ControllerDef of a
\* list wraps a reconciler of the i-th type, as in Run where all types differ.
ControllerTypes == <<"*corev1.CoreV1ServiceReconciler", "*corev1.CoreV1EndpointsReconciler", "*configuration.NetV1IngressReconciler", "*configuration.NetV1Beta1IngressReconciler", "*configuration.ExtV1Beta1IngressReconciler", "*configuration.KongV1Alpha1UDPIngressReconciler">>

\* An AutoHandler is absent (nil) or a func(client.Reader) bool; a present one
\* is modelled by the answer it gives on this cluster.
AutoHandlerNil == "nil"
AutoHandlers == {AutoHandlerNil, "true", "false"}

\* A Controller of the given concrete type; setupOK says whether its
\* SetupWithManager succeeds against this manager.
Controller(type, setupOK) == [type |-> type, setupOK |-> setupOK]

\* type ControllerDef struct { IsEnabled; AutoHandler; Controller }
\* IsEnabled points into Config; nothing writes Config after the flags are
\* parsed, so the field holds the value the pointer reads at resolution.
ControllerDef(isEnabled, autoHandler, controller) == [IsEnabled |-> isEnabled, AutoHandler |-> autoHandler, Controller |-> controller]

\* What varies from one ControllerDef of a list to another.
ControllerDefFields == [IsEnabled : EnablementStatus, AutoHandler : AutoHandlers, setupOK : BOOLEAN]

\* The list of ControllerDefs with the fields a[1], ..., a[n].
ControllerList(n, a) == [i \in 1..n |-> ControllerDef(a[i].IsEnabled, a[i].AutoHandler, Controller(ControllerTypes[i], a[i].setupOK))]

\* func (c *ControllerDef) Name() string
Name(c) == c.Controller.type

\* Controller.SetupWithManager(mgr): nil, or the reconciler's own error.
SetupWithManager(ctl) == IF ctl.setupOK THEN Nil ELSE Errorf(<<"failed to set up ", ctl.type>>)

\* What one call of MaybeSetupWithManager did: how often it invoked the
\* AutoHandler and SetupWithManager, and the error it returned.
Resolution(auto, setup, err) == [auto |-> auto, setup |-> setup, err |-> err]

\* Plausible slip: the auto case returns instead of falling through.
MaybeSetupWithManager_NoFallthrough(c) ==
    CASE c.IsEnabled = EnablementStatusDisabled -> Resolution(0, 0, Nil)
      [] c.IsEnabled = EnablementStatusAuto ->
            IF c.AutoHandler = AutoHandlerNil
            THEN Resolution(0, 0, Errorf(<<"'auto' enablement not supported for controller ">> \o Quoted(Name(c))))
            ELSE Resolution(1, 0, Nil)
      [] OTHER -> Resolution(0, 1, SetupWithManager(c.Controller))

\* Plausible slip: a missing AutoHandler is read as "do not enable".
MaybeSetupWithManager_NilHandlerSkips(c) ==
    CASE c.IsEnabled = EnablementStatusDisabled -> Resolution(0, 0, Nil)
      [] c.IsEnabled = EnablementStatusAuto ->
            IF c.AutoHandler = AutoHandlerNil
            THEN Resolution(0, 0, Nil)
            ELSE IF c.AutoHandler = "false"
                 THEN Resolution(1, 0, Nil)
                 ELSE Resolution(1, 1, SetupWithManager(c.Controller))
      [] OTHER -> Resolution(0, 1, SetupWithManager(c.Controller))

\* Plausible slip: the auto case installs by its own call and drops the
\* install's error instead of sharing the enabled case's return.
MaybeSetupWithManager_AutoDropsError(c) ==
    CASE c.IsEnabled = EnablementStatusDisabled -> Resolution(0, 0, Nil)
      [] c.IsEnabled = EnablementStatusAuto ->
            IF c.AutoHandler = AutoHandlerNil
            THEN Resolution(0, 0, Errorf(<<"'auto' enablement not supported for controller ">> \o Quoted(Name(c))))
            ELSE IF c.AutoHandler = "false"
                 THEN Resolution(1, 0, Nil)
                 ELSE Resolution(1, 1, Nil)
      [] OTHER -> Resolution(0, 1, SetupWithManager(c.Controller))

\* func (c *ControllerDef) MaybeSetupWithManager(mgr ctrl.Manager) error
MaybeSetupWithManager(c) ==
    CASE c.IsEnabled = EnablementStatusDisabled -> Resolution(0, 0, Nil)
      [] c.IsEnabled = EnablementStatusAuto ->
            IF c.AutoHandler = AutoHandlerNil
            THEN Resolution(0, 0, Errorf(<<"'auto' enablement not supported for controller ">> \o Quoted(Name(c))))
            ELSE IF c.AutoHandler = "false"
                 THEN Resolution(1, 0, Nil)
                 ELSE Resolution(1, 1, SetupWithManager(c.Controller)) \* fallthrough
      [] OTHER -> Resolution(0, 1, SetupWithManager(c.Controller))

\* Plausible slip: the loop logs the error and goes on.
RunIteration_Continue(c) ==
    LET r == MaybeSetupWithManager(c)
    IN  [res |-> r, return |-> FALSE, err |-> Nil]

\* Plausible slip: the loop stops at the first controller that was skipped.
RunIteration_StopAtSkipped(c) ==
    LET r == MaybeSetupWithManager(c)
    IN  [res |-> r,
         return |-> r.err # Nil \/ r.setup = 0,
         err |-> IF r.err # Nil
                 THEN Errorf(<<"unable to create controller ">> \o Quoted(Name(c)) \o <<": ">> \o ErrorText(r.err))
                 ELSE Nil]

\* One iteration of the loop of Run over the controllers: the resolution of
\* c, whether Run returns from inside the loop, and the error it returns.
RunIteration(c) ==
    LET r == MaybeSetupWithManager(c)
    IN  [res |-> r,
         return |-> r.err # Nil,
         err |-> IF r.err # Nil
                 THEN Errorf(<<"unable to create controller ">> \o Quoted(Name(c)) \o <<": ">> \o ErrorText(r.err))
                 ELSE Nil]

\* The controllers of the manager after a SetupWithManager call.
Installed(mgr, c, r) == IF r.setup = 1 /\ r.err = Nil THEN mgr \cup {Name(c)} ELSE mgr

\* The whole loop of Run on a list, from its i-th element on: the controllers
\* set up and the error returned from inside the loop (Nil when the loop runs
\* to its end).
RECURSIVE RunLoop(_, _, _)
RunLoop(list, i, mgr) ==
    IF i > Len(list)
    THEN [mgr |-> mgr, err |-> Nil]
    ELSE LET it == RunIteration(list[i])
         IN  IF it.return
             THEN [mgr |-> Installed(mgr, list[i], it.res), err |-> it.err]
             ELSE RunLoop(list, i + 1, Installed(mgr, list[i], it.res))

\* No call of getOrCreateConfigSecret is made.
SecretIdle ==
    /\ store = {}
    /\ spc = <<>>
    /\ targetNsn = <<>>
    /\ secretObj = <<>>
    /\ storeCalls = <<>>
    /\ result = <<>>
    /\ earlier = <<>>

AdmissionIdle ==
    /\ active = {}
    /\ vpc = <<>>
    /\ call = <<>>
    /\ plugin = <<>>
    /\ remoteCalls = <<>>
    /\ storeReads = <<>>
    /\ replies = <<>>
    /\ credTypeToFields = <<>>
    /\ outcome = <<>>

\* Run has built its manager and the list of ControllerDefs.
InitManager ==
    /\ \E n \in 0..MaxControllers : \E a \in [1..n -> ControllerDefFields] : controllers = ControllerList(n, a)
    /\ rpc = "loop"
    /\ resolved = <<>>
    /\ mgrControllers = {}
    /\ runErr = Nil
    /\ mgrStarted = FALSE
    /\ AdmissionIdle
    /\ SecretIdle

\* for _, c := range controllers { if err := c.MaybeSetupWithManager(mgr) ... }
RunLoopStep ==
    /\ rpc = "loop"
    /\ Len(resolved) < Len(controllers)
    /\ LET c == controllers[Len(resolved) + 1]
           it == RunIteration(c)
       IN  /\ resolved' = Append(resolved, it.res)
           /\ mgrControllers' = Installed(mgrControllers, c, it.res)
           /\ runErr' = it.err
           /\ rpc' = IF it.return THEN "returned" ELSE "loop"
    /\ UNCHANGED <<controllers, mgrStarted, admVars, secVars>>

\* mgr.AddHealthzCheck("health", healthz.Ping), once the loop is through
AddHealthzCheck ==
    /\ rpc = "loop"
    /\ Len(resolved) = Len(controllers)
    /\ \E ok \in BOOLEAN :
          IF ok
          THEN rpc' = "readyz" /\ UNCHANGED runErr
          ELSE rpc' = "returned" /\ runErr' = Errorf(<<"unable to setup healthz: ", "healthz">>)
    /\ UNCHANGED <<controllers, resolved, mgrControllers, mgrStarted, admVars, secVars>>

\* mgr.AddReadyzCheck("check", healthz.Ping)
AddReadyzCheck ==
    /\ rpc = "readyz"
    /\ \E ok \in BOOLEAN :
          IF ok
          THEN rpc' = "start" /\ UNCHANGED runErr
          ELSE rpc' = "returned" /\ runErr' = Errorf(<<"unable to setup readyz: ", "readyz">>)
    /\ UNCHANGED <<controllers, resolved, mgrControllers, mgrStarted, admVars, secVars>>

\* return mgr.Start(ctx): the manager runs ...
StartManager ==
    /\ rpc = "start"
    /\ rpc' = "running"
    /\ mgrStarted' = TRUE
    /\ UNCHANGED <<controllers, resolved, mgrControllers, runErr, admVars, secVars>>

\* ... and Run returns what mgr.Start returns when the manager exits.
ManagerExit ==
    /\ rpc = "running"
    /\ rpc' = "returned"
    /\ \E e \in {Nil, Errorf(<<"manager exited">>)} : runErr' = e
    /\ UNCHANGED <<controllers, resolved, mgrControllers, mgrStarted, admVars, secVars>>

NextManager ==
    \/ RunLoopStep
    \/ AddHealthzCheck
    \/ AddReadyzCheck
    \/ StartManager
    \/ ManagerExit

SpecManager == InitManager /\ [][NextManager]_vars

----------------------------------------------------------------------------
\* package admission (the validator of Kong entities)

\* The admission requests that can be in flight.
Callers == {"a1", "a2"}

\* A pointer: nil is <<>>, a pointer to v is <<v>>.
Ptr(v) == <<v>>

\* (bool, string, error)
Outcome(valid, reason, err) == [valid |-> valid, reason |-> reason, err |-> err]

NoOutcome == Outcome(FALSE, <<>>, Nil)

\* configurationv1.KongConsumer: the field the validator reads
Usernames == {"", "alice", "bob"}

\* configurationv1.SecretValueFromSource; the zero value means "not set"
ZeroSecretValue == [Secret |-> "", Key |-> ""]
SecretValues == {ZeroSecretValue, [Secret |-> "plugin-conf", Key |-> ""], [Secret |-> "plugin-conf", Key |-> "rate-limiting"]}

\* k8sPlugin.Config, the raw JSON of the configuration: empty or some text
RawConfigs == {<<>>, <<"{...}">>}

\* configurationv1.KongPlugin: the fields the validator reads
KongPlugins == [PluginName : {"", "rate-limiting"}, Config : RawConfigs, ConfigFrom : SecretValues, Namespace : {"default"}, RunOn : {"", "first"}, Protocols : {<<>>, <<"http">>}]

ZeroKongPlugin == [PluginName |-> "", Config |-> <<>>, ConfigFrom |-> ZeroSecretValue, Namespace |-> "", RunOn |-> "", Protocols |-> <<>>]

\* var plugin kong.Plugin; a kong.Configuration is modelled by its key set
ZeroPlugin == [Name |-> <<>>, Config |-> {}, RunOn |-> <<>>, Protocols |-> <<>>]

\* kong.StringSlice(ss...): the pointers to the elements
StringSlice(ss) == [i \in 1..Len(ss) |-> Ptr(ss[i])]

\* A request to the Kong Admin API.
Request(method, path, body) == [method |-> method, path |-> path, body |-> body]

\* validator.Client.Consumers.Get(ctx, &username): GET /consumers/<username>
ConsumersGet(username) == Request("GET", <<"/consumers/", username>>, <<>>)

\* validator.Client.NewRequest("POST", "/schemas/plugins/validate", nil, &plugin)
SchemaValidation(p) == Request("POST", <<"/schemas/plugins/validate">>, <<p>>)

NotFoundErr == Errorf(<<"HTTP status 404 (message: \"Not found\")">>)

\* kong.IsNotFoundErr
IsNotFoundErr(err) == err = NotFoundErr

\* What Consumers.Get can return to ValidateConsumer, (c, err): not found,
\* another failure, the consumer of that username, or neither.
ConsumersGetReturns(username) ==
    {[c |-> <<>>, err |-> NotFoundErr],
     [c |-> <<>>, err |-> Errorf(<<"HTTP status 500 (message: \"internal\")">>)],
     [c |-> <<>>, err |-> Errorf(<<"dial tcp 127.0.0.1:8001: connection refused">>)],
     [c |-> Ptr([Username |-> username]), err |-> Nil],
     [c |-> <<>>, err |-> Nil]}

\* What kongstate.RawConfigToConfiguration can return to ValidatePlugin,
\* (config, err): an empty raw config gives the empty configuration; any
\* other gives an empty or a non-empty configuration, or fails to parse.
RawConfigToConfiguration(raw) ==
    IF raw = <<>>
    THEN {[config |-> {}, err |-> Nil]}
    ELSE {[config |-> {}, err |-> Nil],
          [config |-> {"minute"}, err |-> Nil],
          [config |-> {}, err |-> Errorf(<<"invalid character '.' looking for beginning of object key string">>)]}

\* What kongstate.SecretToConfiguration can return to ValidatePlugin.
SecretToConfiguration(secretValue, namespace) ==
    {[config |-> {"second"}, err |-> Nil],
     [config |-> {}, err |-> Nil],
     [config |-> {}, err |-> Errorf(<<"error fetching plugin configuration secret '", namespace, "/", secretValue.Secret, "'">>)]}

\* What validator.Client.NewRequest can return: the request, or an error.
NewRequestErrs == {Nil, Errorf(<<"json: unsupported type">>)}

StatusCreated == 201

\* What validator.Client.Do can return, (resp, err): a transport error, or a
\* completed response with its status code.
ClientDoReturns ==
    {[resp |-> <<>>, err |-> Errorf(<<"Post \"/schemas/plugins/validate\": dial tcp: connection refused">>)],
     [resp |-> <<>>, err |-> Errorf(<<"Post \"/schemas/plugins/validate\": context deadline exceeded">>)]}
    \cup {[resp |-> Ptr([StatusCode |-> code]), err |-> Nil] : code \in {200, StatusCreated, 400, 500}}

\* A step of a validation call: where the call goes next, what it returns if
\* it is done, and the collaborator call it makes.
Returns(out) == [next |-> "done", out |-> out, plugin |-> ZeroPlugin, remote |-> <<>>, read |-> <<>>]

\* Plausible slip: the username check is missing.
ConsumerStart_NoCheck(consumer) ==
    [next |-> "Consumers.Get", out |-> NoOutcome, plugin |-> ZeroPlugin, remote |-> <<ConsumersGet(consumer.Username)>>, read |-> <<>>]

\* ValidateConsumer up to the lookup.
ConsumerStart(consumer) ==
    IF consumer.Username = ""
    THEN Returns(Outcome(FALSE, <<"username cannot be empty">>, Nil))
    ELSE [next |-> "Consumers.Get", out |-> NoOutcome, plugin |-> ZeroPlugin, remote |-> <<ConsumersGet(consumer.Username)>>, read |-> <<>>]

\* Plausible slip: a failed lookup is reported as a rejection, as the plugin
\* path does with a failed request.
ConsumerFinish_ErrorAsRejection(r) ==
    IF r.err # Nil
    THEN IF IsNotFoundErr(r.err)
         THEN Outcome(TRUE, <<>>, Nil)
         ELSE Outcome(FALSE, ErrorText(r.err), Nil)
    ELSE IF r.c # <<>>
         THEN Outcome(FALSE, <<"consumer already exists">>, Nil)
         ELSE Outcome(TRUE, <<>>, Nil)

\* Plausible slip: an existing consumer is rejected without saying why.
ConsumerFinish_ExistsWithoutReason(r) ==
    IF r.err # Nil
    THEN IF IsNotFoundErr(r.err)
         THEN Outcome(TRUE, <<>>, Nil)
         ELSE Outcome(FALSE, <<>>, Errorf(<<"fetching consumer from Kong: ">> \o ErrorText(r.err)))
    ELSE IF r.c # <<>>
         THEN Outcome(FALSE, <<>>, Nil)
         ELSE Outcome(TRUE, <<>>, Nil)

\* ValidateConsumer from the return (c, err) of the lookup on.
ConsumerFinish(r) ==
    IF r.err # Nil
    THEN IF IsNotFoundErr(r.err)
         THEN Outcome(TRUE, <<>>, Nil)
         ELSE Outcome(FALSE, <<>>, Errorf(<<"fetching consumer from Kong: ">> \o ErrorText(r.err)))
    ELSE IF r.c # <<>>
         THEN Outcome(FALSE, <<"consumer already exists">>, Nil)
         ELSE Outcome(TRUE, <<>>, Nil)

\* Plausible slip: Config and ConfigFrom are not checked against each other.
PluginStart_NoExclusion(k8sPlugin, parsed) ==
    LET p == [ZeroPlugin EXCEPT !.Name = Ptr(k8sPlugin.PluginName), !.Config = parsed.config]
    IN  IF k8sPlugin.PluginName = ""
        THEN Returns(Outcome(FALSE, <<"plugin name cannot be empty">>, Nil))
        ELSE IF parsed.err # Nil
        THEN [Returns(Outcome(FALSE, <<"could not parse plugin configuration">>, parsed.err)) EXCEPT !.plugin = p]
        ELSE IF k8sPlugin.ConfigFrom # ZeroSecretValue
        THEN [next |-> "SecretToConfiguration", out |-> NoOutcome, plugin |-> p, remote |-> <<>>,
              read |-> <<[secretValue |-> k8sPlugin.ConfigFrom, namespace |-> k8sPlugin.Namespace]>>]
        ELSE [next |-> "NewRequest", out |-> NoOutcome, plugin |-> p, remote |-> <<>>, read |-> <<>>]

\* ValidatePlugin up to the read of the referenced secret; parsed is what
\* RawConfigToConfiguration returned.
PluginStart(k8sPlugin, parsed) ==
    LET p == [ZeroPlugin EXCEPT !.Name = Ptr(k8sPlugin.PluginName), !.Config = parsed.config]
    IN  IF k8sPlugin.PluginName = ""
        THEN Returns(Outcome(FALSE, <<"plugin name cannot be empty">>, Nil))
        ELSE IF parsed.err # Nil
        THEN [Returns(Outcome(FALSE, <<"could not parse plugin configuration">>, parsed.err)) EXCEPT !.plugin = p]
        ELSE IF k8sPlugin.ConfigFrom # ZeroSecretValue
        THEN IF Cardinality(p.Config) > 0
             THEN [Returns(Outcome(FALSE, <<"plugin cannot use both Config and ConfigFrom">>, Nil)) EXCEPT !.plugin = p]
             ELSE [next |-> "SecretToConfiguration", out |-> NoOutcome, plugin |-> p, remote |-> <<>>,
                   read |-> <<[secretValue |-> k8sPlugin.ConfigFrom, namespace |-> k8sPlugin.Namespace]>>]
        ELSE [next |-> "NewRequest", out |-> NoOutcome, plugin |-> p, remote |-> <<>>, read |-> <<>>]

\* Plausible slip: a secret that cannot be resolved is reported as a
\* rejection of the plugin.
PluginSecret_ErrorAsRejection(p, r) ==
    IF r.err # Nil
    THEN [Returns(Outcome(FALSE, <<"could not load secret plugin configuration">>, Nil)) EXCEPT !.plugin = p]
    ELSE [next |-> "NewRequest", out |-> NoOutcome, plugin |-> [p EXCEPT !.Config = r.config], remote |-> <<>>, read |-> <<>>]

\* ValidatePlugin from the return (config, err) of SecretToConfiguration on.
PluginSecret(p, r) ==
    IF r.err # Nil
    THEN [Returns(Outcome(FALSE, <<"could not load secret plugin configuration">>, r.err)) EXCEPT !.plugin = p]
    ELSE [next |-> "NewRequest", out |-> NoOutcome, plugin |-> [p EXCEPT !.Config = r.config], remote |-> <<>>, read |-> <<>>]

\* ValidatePlugin from the RunOn and Protocols fields to the submission of
\* the request; err is what NewRequest returned.
PluginRequest(k8sPlugin, p, err) ==
    LET p1 == IF k8sPlugin.RunOn # "" THEN [p EXCEPT !.RunOn = Ptr(k8sPlugin.RunOn)] ELSE p
        p2 == IF Len(k8sPlugin.Protocols) > 0 THEN [p1 EXCEPT !.Protocols = StringSlice(k8sPlugin.Protocols)] ELSE p1
    IN  IF err # Nil
        THEN [Returns(Outcome(FALSE, <<>>, err)) EXCEPT !.plugin = p2]
        ELSE [next |-> "Client.Do", out |-> NoOutcome, plugin |-> p2, remote |-> <<SchemaValidation(p2)>>, read |-> <<>>]

\* The step, and the request building that follows it without a collaborator
\* call in between.
ThroughNewRequest(k8sPlugin, step, err) ==
    IF step.next = "NewRequest" THEN PluginRequest(k8sPlugin, step.plugin, err) ELSE step

\* Plausible slip: a failed request is returned as an error, as the consumer
\* path does with a failed lookup.
PluginFinish_ErrorAsError(r) ==
    IF r.err # Nil
    THEN Outcome(FALSE, <<>>, r.err)
    ELSE Outcome(TRUE, <<>>, Nil)

\* Plausible slip: only a 201 is accepted.
PluginFinish_Only201(r) ==
    IF r.err # Nil
    THEN Outcome(FALSE, ErrorText(r.err), Nil)
    ELSE IF r.resp[1].StatusCode = StatusCreated
         THEN Outcome(TRUE, <<>>, Nil)
         ELSE Outcome(FALSE, <<"unexpected response">>, Nil)

\* Plausible slip: the permissive default also covers a request that failed.
PluginFinish_AcceptOnError(r) ==
    IF r.err # Nil
    THEN Outcome(TRUE, <<>>, Nil)
    ELSE IF r.resp[1].StatusCode = StatusCreated
         THEN Outcome(TRUE, <<>>, Nil)
         ELSE Outcome(TRUE, <<>>, Nil)

\* ValidatePlugin from the return (resp, err) of Client.Do on.
PluginFinish(r) ==
    IF r.err # Nil
    THEN Outcome(FALSE, ErrorText(r.err), Nil)
    ELSE IF r.resp[1].StatusCode = StatusCreated
         THEN Outcome(TRUE, <<>>, Nil)
         ELSE IF r.err # Nil
              THEN Outcome(FALSE, <<>>, r.err)
              ELSE Outcome(TRUE, <<>>, Nil)

\* corev1.Secret: its Data, a map from keys to byte values (nil reads as
\* the empty map); a byte value is modelled by the string it converts to.
Secret(data) == [Data |-> data]

ZeroSecret == Secret([k \in {} |-> ""])

keyAuthFields == <<"key">>
basicAuthFields == <<"username", "password">>
hmacAuthFields == <<"username", "secret">>
jwtAuthFields == <<"algorithm", "rsa_public_key", "key", "secret">>
mtlsAuthFields == <<"subject_name">>

\* The value credTypeToFields is initialised with.
CredTypeToFields ==
    ("key-auth" :> keyAuthFields) @@ ("keyauth_credential" :> keyAuthFields)
    @@ ("basic-auth" :> basicAuthFields) @@ ("basicauth_credential" :> basicAuthFields)
    @@ ("hmac-auth" :> hmacAuthFields) @@ ("hmacauth_credential" :> hmacAuthFields)
    @@ ("jwt" :> jwtAuthFields) @@ ("jwt_secret" :> jwtAuthFields)
    @@ ("oauth2" :> <<"name", "client_id", "client_secret", "redirect_uris">>)
    @@ ("acl" :> <<"group">>)
    @@ ("mtls-auth" :> mtlsAuthFields)

\* strings.Join(elems, sep)
RECURSIVE Join(_, _)
Join(elems, sep) ==
    IF Len(elems) = 0 THEN <<>>
    ELSE IF Len(elems) = 1 THEN <<elems[1]>>
    ELSE <<elems[1], sep>> \o Join(Tail(elems), sep)

\* Plausible slip: a required field with an empty value is taken as missing.
MissingFields_ByContent(fields, data) ==
    SelectSeq(fields, LAMBDA field : field \notin DOMAIN data \/ data[field] = "")

\* The loop of ValidateCredential over fields: those that are no key of data.
MissingFields(fields, data) == SelectSeq(fields, LAMBDA field : field \notin DOMAIN data)

\* strings.ToLower, on the credential types in use.
ToLower(s) ==
    CASE s = "Basic-Auth" -> "basic-auth"
      [] s = "KEY-AUTH" -> "key-auth"
      [] OTHER -> s

\* Plausible slip: the credential type is looked up without regard to case.
ValidateCredentialResult_FoldCase(secret, table) ==
    IF "kongCredType" \notin DOMAIN secret.Data
    THEN Outcome(TRUE, <<>>, Nil)
    ELSE LET credType == ToLower(secret.Data["kongCredType"])
         IN  IF credType \notin DOMAIN table
             THEN Outcome(FALSE, <<"invalid credential type: ", credType>>, Nil)
             ELSE LET missingFields == MissingFields(table[credType], secret.Data)
                  IN  IF Len(missingFields) # 0
                      THEN Outcome(FALSE, <<"missing required field(s): ">> \o Join(missingFields, ", "), Nil)
                      ELSE Outcome(TRUE, <<>>, Nil)

\* Plausible slip: a secret without the credential type marker is taken for a
\* credential of an unknown type.
ValidateCredentialResult_MarkerRequired(secret, table) ==
    IF "kongCredType" \notin DOMAIN secret.Data
    THEN Outcome(FALSE, <<"invalid credential type: ", "">>, Nil)
    ELSE LET credType == secret.Data["kongCredType"]
         IN  IF credType \notin DOMAIN table
             THEN Outcome(FALSE, <<"invalid credential type: ", credType>>, Nil)
             ELSE LET missingFields == MissingFields(table[credType], secret.Data)
                  IN  IF Len(missingFields) # 0
                      THEN Outcome(FALSE, <<"missing required field(s): ">> \o Join(missingFields, ", "), Nil)
                      ELSE Outcome(TRUE, <<>>, Nil)

\* Plausible slip: the missing fields are collected in the slice of the table
\* (missingFields := fields[:0]), which overwrites its leading entries.
CredTypeToFieldsAfter_FilterInPlace(secret, table) ==
    IF "kongCredType" \notin DOMAIN secret.Data \/ secret.Data["kongCredType"] \notin DOMAIN table
    THEN table
    ELSE LET credType == secret.Data["kongCredType"]
             missingFields == MissingFields(table[credType], secret.Data)
         IN  [table EXCEPT ![credType] = missingFields \o SubSeq(@, Len(missingFields) + 1, Len(@))]

\* credTypeToFields after a call of ValidateCredential that read it as table:
\* the call collects the missing fields in a slice of its own (var
\* missingFields []string) and assigns to nothing of the table.
CredTypeToFieldsAfter(secret, table) == table

\* func (validator KongHTTPValidator) ValidateCredential(secret corev1.Secret);
\* table is the value of credTypeToFields the call reads.
ValidateCredentialResult(secret, table) ==
    IF "kongCredType" \notin DOMAIN secret.Data
    THEN Outcome(TRUE, <<>>, Nil)
    ELSE LET credType == secret.Data["kongCredType"]
         IN  IF credType \notin DOMAIN table
             THEN Outcome(FALSE, <<"invalid credential type: ", credType>>, Nil)
             ELSE LET missingFields == MissingFields(table[credType], secret.Data)
                  IN  IF Len(missingFields) # 0
                      THEN Outcome(FALSE, <<"missing required field(s): ">> \o Join(missingFields, ", "), Nil)
                      ELSE Outcome(TRUE, <<>>, Nil)

\* The key sets of the secrets validated: what some credential type needs, in
\* part or in whole, with or without a key no type needs.
SecretKeySets == UNION {SUBSET ({CredTypeToFields[t][i] : i \in 1..Len(CredTypeToFields[t])} \cup {"note"}) : t \in DOMAIN CredTypeToFields}

\* The values of kongCredType: the known types, and some that are not known.
CredTypes == DOMAIN CredTypeToFields \cup {"Basic-Auth", "KEY-AUTH", "bearer", ""}

\* The secret with the given keys, of which the key empty (if among them) has
\* an empty value, and with the kongCredType in marker (none if empty).
SecretOf(keys, empty, marker) ==
    Secret([k \in keys \cup {"kongCredType" : t \in marker} |->
              IF k = "kongCredType" THEN CHOOSE t \in marker : TRUE
              ELSE IF k = empty THEN "" ELSE "dmFsdWU="])

\* The secrets ValidateCredential is called with.
CredentialSecrets ==
    UNION {{SecretOf(keys, empty, marker) : empty \in keys \cup {"kongCredType"}, marker \in {{}} \cup {{t} : t \in CredTypes}} : keys \in SecretKeySets}

\* The call of a validation operation with its argument.
Call(op, consumer, k8sPlugin, secret) == [op |-> op, consumer |-> consumer, k8sPlugin |-> k8sPlugin, secret |-> secret]

NoCall == Call("none", [Username |-> ""], ZeroKongPlugin, ZeroSecret)

\* What the collaborators returned to the call so far, <<>> where not called.
NoReplies == [parse |-> <<>>, get |-> <<>>, secret |-> <<>>, newRequest |-> <<>>, do |-> <<>>]

\* The manager runs; no admission request is in flight.
InitAdmission ==
    /\ controllers = <<>>
    /\ rpc = "running"
    /\ resolved = <<>>
    /\ mgrControllers = {}
    /\ runErr = Nil
    /\ mgrStarted = TRUE
    /\ active = {"a1"}
    /\ vpc = [a \in Callers |-> "idle"]
    /\ call = [a \in Callers |-> NoCall]
    /\ plugin = [a \in Callers |-> ZeroPlugin]
    /\ remoteCalls = [a \in Callers |-> <<>>]
    /\ storeReads = [a \in Callers |-> <<>>]
    /\ replies = [a \in Callers |-> NoReplies]
    /\ credTypeToFields = CredTypeToFields
    /\ SecretIdle
    /\ outcome = [a \in Callers |-> NoOutcome]

\* The caller's call takes the step s, having received the replies rs.
Step(a, c, s, rs) ==
    /\ vpc' = [vpc EXCEPT ![a] = s.next]
    /\ call' = [call EXCEPT ![a] = c]
    /\ plugin' = [plugin EXCEPT ![a] = s.plugin]
    /\ remoteCalls' = [remoteCalls EXCEPT ![a] = @ \o s.remote]
    /\ storeReads' = [storeReads EXCEPT ![a] = @ \o s.read]
    /\ replies' = [replies EXCEPT ![a] = rs]
    /\ outcome' = [outcome EXCEPT ![a] = s.out]
    /\ UNCHANGED <<mgrVars, secVars, active, credTypeToFields>>

\* A new call starts with nothing sent, read or received.
Fresh(a) ==
    /\ a \in active
    /\ vpc[a] = "idle"

\* ValidateConsumer is called and runs up to its lookup.
ValidateConsumer(a) ==
    /\ Fresh(a)
    /\ \E username \in Usernames :
          LET consumer == [Username |-> username]
              s == ConsumerStart(consumer)
          IN  /\ vpc' = [vpc EXCEPT ![a] = s.next]
              /\ call' = [call EXCEPT ![a] = Call("ValidateConsumer", consumer, ZeroKongPlugin, ZeroSecret)]
              /\ plugin' = [plugin EXCEPT ![a] = ZeroPlugin]
              /\ remoteCalls' = [remoteCalls EXCEPT ![a] = s.remote]
              /\ storeReads' = [storeReads EXCEPT ![a] = <<>>]
              /\ replies' = [replies EXCEPT ![a] = NoReplies]
              /\ outcome' = [outcome EXCEPT ![a] = s.out]
    /\ UNCHANGED <<mgrVars, secVars, active, credTypeToFields>>

\* Consumers.Get returns and ValidateConsumer runs to its end.
ConsumerLookupReturns(a) ==
    /\ a \in active
    /\ vpc[a] = "Consumers.Get"
    /\ \E r \in ConsumersGetReturns(call[a].consumer.Username) :
          Step(a, call[a], [Returns(ConsumerFinish(r)) EXCEPT !.plugin = plugin[a]], [replies[a] EXCEPT !.get = <<r>>])

\* ValidatePlugin is called, with one of the given plugins, and runs up to its
\* first collaborator call: the read of the referenced secret, or the
\* submission of the request.
ValidatePluginOf(a, plugins) ==
    /\ Fresh(a)
    /\ \E k8sPlugin \in plugins :
       \E parsed \in RawConfigToConfiguration(k8sPlugin.Config) :
       \E err \in NewRequestErrs :
          LET s0 == PluginStart(k8sPlugin, parsed)
              s == ThroughNewRequest(k8sPlugin, s0, err)
          IN  /\ vpc' = [vpc EXCEPT ![a] = s.next]
              /\ call' = [call EXCEPT ![a] = Call("ValidatePlugin", [Username |-> ""], k8sPlugin, ZeroSecret)]
              /\ plugin' = [plugin EXCEPT ![a] = s.plugin]
              /\ remoteCalls' = [remoteCalls EXCEPT ![a] = s.remote]
              /\ storeReads' = [storeReads EXCEPT ![a] = s.read]
              /\ replies' = [replies EXCEPT ![a] =
                    [NoReplies EXCEPT !.parse = IF k8sPlugin.PluginName = "" THEN <<>> ELSE <<parsed>>,
                                      !.newRequest = IF s0.next = "NewRequest" THEN <<err>> ELSE <<>>]]
              /\ outcome' = [outcome EXCEPT ![a] = s.out]
    /\ UNCHANGED <<mgrVars, secVars, active, credTypeToFields>>

ValidatePlugin(a) == ValidatePluginOf(a, KongPlugins)

\* SecretToConfiguration returns and ValidatePlugin runs up to the
\* submission of the request.
SecretReadReturns(a) ==
    /\ a \in active
    /\ vpc[a] = "SecretToConfiguration"
    /\ \E r \in SecretToConfiguration(call[a].k8sPlugin.ConfigFrom, call[a].k8sPlugin.Namespace) :
       \E err \in NewRequestErrs :
          LET s0 == PluginSecret(plugin[a], r)
              s == ThroughNewRequest(call[a].k8sPlugin, s0, err)
          IN  Step(a, call[a], s,
                   [replies[a] EXCEPT !.secret = <<r>>,
                                      !.newRequest = IF s0.next = "NewRequest" THEN <<err>> ELSE <<>>])

\* Client.Do returns and ValidatePlugin runs to its end.
SchemaValidationReturns(a) ==
    /\ a \in active
    /\ vpc[a] = "Client.Do"
    /\ \E r \in ClientDoReturns :
          Step(a, call[a], [Returns(PluginFinish(r)) EXCEPT !.plugin = plugin[a]], [replies[a] EXCEPT !.do = <<r>>])

\* ValidateCredential is called, with one of the given secrets, and runs to
\* its end: it calls no collaborator.
ValidateCredentialOf(a, secrets) ==
    /\ Fresh(a)
    /\ \E secret \in secrets :
          /\ vpc' = [vpc EXCEPT ![a] = "done"]
          /\ call' = [call EXCEPT ![a] = Call("ValidateCredential", [Username |-> ""], ZeroKongPlugin, secret)]
          /\ outcome' = [outcome EXCEPT ![a] = ValidateCredentialResult(secret, credTypeToFields)]
          /\ credTypeToFields' = CredTypeToFieldsAfter(secret, credTypeToFields)
    /\ UNCHANGED <<mgrVars, secVars, active, plugin, remoteCalls, storeReads, replies>>

ValidateCredential(a) == ValidateCredentialOf(a, CredentialSecrets)

\* The caller is through with the outcome; its next request can come.
NextRequest(a) ==
    /\ a \in active
    /\ vpc[a] = "done"
    /\ vpc' = [vpc EXCEPT ![a] = "idle"]
    /\ call' = [call EXCEPT ![a] = NoCall]
    /\ plugin' = [plugin EXCEPT ![a] = ZeroPlugin]
    /\ remoteCalls' = [remoteCalls EXCEPT ![a] = <<>>]
    /\ storeReads' = [storeReads EXCEPT ![a] = <<>>]
    /\ replies' = [replies EXCEPT ![a] = NoReplies]
    /\ outcome' = [outcome EXCEPT ![a] = NoOutcome]
    /\ UNCHANGED <<mgrVars, secVars, active, credTypeToFields>>

NextAdmission ==
    \E a \in Callers :
       \/ ValidateConsumer(a)
       \/ ConsumerLookupReturns(a)
       \/ ValidatePlugin(a)
       \/ SecretReadReturns(a)
       \/ SchemaValidationReturns(a)
       \/ ValidateCredential(a)
       \/ NextRequest(a)

SpecAdmission == InitAdmission /\ [][NextAdmission]_vars

\* The plugins and secrets of the requests that are validated concurrently:
\* some of each way through ValidatePlugin and ValidateCredential.
ConcurrentPlugins ==
    {ZeroKongPlugin,
     [ZeroKongPlugin EXCEPT !.PluginName = "rate-limiting", !.Namespace = "default", !.Config = <<"{...}">>],
     [ZeroKongPlugin EXCEPT !.PluginName = "rate-limiting", !.Namespace = "default", !.Config = <<"{...}">>,
                            !.ConfigFrom = [Secret |-> "plugin-conf", Key |-> "rate-limiting"]],
     [ZeroKongPlugin EXCEPT !.PluginName = "rate-limiting", !.Namespace = "default", !.RunOn = "first", !.Protocols = <<"http">>,
                            !.ConfigFrom = [Secret |-> "plugin-conf", Key |-> "rate-limiting"]]}

ConcurrentSecrets ==
    {SecretOf({"username"}, "", {}),
     SecretOf({"username"}, "", {"basic-auth"}),
     SecretOf({"username", "password"}, "password", {"basic-auth"}),
     SecretOf({"username", "password"}, "", {"Basic-Auth"}),
     SecretOf({"key", "note"}, "", {"jwt"})}

\* As InitAdmission, with every caller issuing requests.
InitConcurrent ==
    /\ controllers = <<>>
    /\ rpc = "running"
    /\ resolved = <<>>
    /\ mgrControllers = {}
    /\ runErr = Nil
    /\ mgrStarted = TRUE
    /\ active = Callers
    /\ vpc = [a \in Callers |-> "idle"]
    /\ call = [a \in Callers |-> NoCall]
    /\ plugin = [a \in Callers |-> ZeroPlugin]
    /\ remoteCalls = [a \in Callers |-> <<>>]
    /\ storeReads = [a \in Callers |-> <<>>]
    /\ replies = [a \in Callers |-> NoReplies]
    /\ credTypeToFields = CredTypeToFields
    /\ SecretIdle
    /\ outcome = [a \in Callers |-> NoOutcome]

\* The steps of the callers' calls, in any interleaving.
NextConcurrent ==
    \E a \in Callers :
       \/ ValidateConsumer(a)
       \/ ConsumerLookupReturns(a)
       \/ ValidatePluginOf(a, ConcurrentPlugins)
       \/ SecretReadReturns(a)
       \/ SchemaValidationReturns(a)
       \/ ValidateCredentialOf(a, ConcurrentSecrets)
       \/ NextRequest(a)

SpecConcurrent == InitConcurrent /\ [][NextConcurrent]_vars

----------------------------------------------------------------------------
\* package configuration: getOrCreateConfigSecret

\* Most calls of getOrCreateConfigSecret a caller makes one after the other.
MaxCalls == 2

\* types.NamespacedName
NamespacedName(namespace, name) == [Namespace |-> namespace, Name |-> name]

\* The names getOrCreateConfigSecret is called with.
TargetNsns == {NamespacedName("kong-system", "kong-config"), NamespacedName("default", "kong-config")}

\* A map[string][]byte with no key, and one with a staged configuration.
EmptyData == [k \in {} |-> ""]
StagedData == [k \in {"networking.k8s.io-v1-Ingress-default-nginx-ingress"} |-> "e30="]

\* corev1.Secret as getOrCreateConfigSecret uses it: the name and namespace of
\* its ObjectMeta, and Data, which is nil (<<>>) or a map m (<<m>>).
ConfigSecret(name, namespace, data) == [Name |-> name, Namespace |-> namespace, Data |-> data]

\* new(corev1.Secret)
NewSecret == ConfigSecret("", "", <<>>)

\* The Data a secret in the store can have: none, an empty map, a staged one.
StoredData == {<<>>, Ptr(EmptyData), Ptr(StagedData)}

\* What the store answers when there is no secret of the name, when there is
\* one already, and when it cannot answer.
NewNotFound(name) == Errorf(<<"secrets ">> \o Quoted(name) \o <<" not found">>)
NewAlreadyExists(name) == Errorf(<<"secrets ">> \o Quoted(name) \o <<" already exists">>)
ServerTimeout == Errorf(<<"the server was unable to return a response in the time allotted">>)

\* errors.IsNotFound
IsNotFound(err) == err # Nil /\ err[Len(err)] = " not found"

\* The secrets of that name and namespace among the objects of the store.
Stored(objects, nsn) == {o \in objects : o.Name = nsn.Name /\ o.Namespace = nsn.Namespace}

\* What c.Get(ctx, targetNsn, secret) can return, (secret as Get leaves it,
\* err): the stored secret, not-found if there is none, or another failure.
ClientGetReturns(objects, nsn, secret) ==
    (IF Stored(objects, nsn) = {}
     THEN {[obj |-> secret, err |-> NewNotFound(nsn.Name)]}
     ELSE {[obj |-> o, err |-> Nil] : o \in Stored(objects, nsn)})
    \cup {[obj |-> secret, err |-> ServerTimeout]}

\* What c.Create(ctx, secret) can do, (objects of the store after it, err): it
\* adds the secret if there is none of its name, fails with already-exists if
\* there is one, or fails otherwise and adds nothing.
ClientCreateReturns(objects, secret) ==
    (IF Stored(objects, NamespacedName(secret.Namespace, secret.Name)) = {}
     THEN {[objects |-> objects \cup {secret}, err |-> Nil]}
     ELSE {[objects |-> objects, err |-> NewAlreadyExists(secret.Name)]})
    \cup {[objects |-> objects, err |-> ServerTimeout]}

\* The (*corev1.Secret, bool, error) getOrCreateConfigSecret returns.
Result(secret, created, err) == [secret |-> secret, created |-> created, err |-> err]

NoResult == Result(<<>>, FALSE, Nil)

\* Plausible slip: the secret to create gets its name but not its namespace.
AfterGet_NameOnly(nsn, r) ==
    IF r.err # Nil
    THEN IF IsNotFound(r.err)
         THEN [next |-> "c.Create", secret |-> [r.obj EXCEPT !.Name = nsn.Name], result |-> NoResult]
         ELSE [next |-> "done", secret |-> r.obj, result |-> Result(<<>>, FALSE, r.err)]
    ELSE LET secret == IF r.obj.Data = <<>> THEN [r.obj EXCEPT !.Data = Ptr(EmptyData)] ELSE r.obj
         IN  [next |-> "done", secret |-> secret, result |-> Result(Ptr(secret), FALSE, Nil)]

\* Plausible slip: a secret that was found is reported as created.
AfterGet_CreatedOnRead(nsn, r) ==
    IF r.err # Nil
    THEN IF IsNotFound(r.err)
         THEN [next |-> "c.Create", secret |-> [r.obj EXCEPT !.Name = nsn.Name, !.Namespace = nsn.Namespace], result |-> NoResult]
         ELSE [next |-> "done", secret |-> r.obj, result |-> Result(<<>>, FALSE, r.err)]
    ELSE LET secret == IF r.obj.Data = <<>> THEN [r.obj EXCEPT !.Data = Ptr(EmptyData)] ELSE r.obj
         IN  [next |-> "done", secret |-> secret, result |-> Result(Ptr(secret), TRUE, Nil)]

\* Plausible slip: any failure of the read is taken for not-found.
AfterGet_CreateOnAnyError(nsn, r) ==
    IF r.err # Nil
    THEN [next |-> "c.Create", secret |-> [r.obj EXCEPT !.Name = nsn.Name, !.Namespace = nsn.Namespace], result |-> NoResult]
    ELSE LET secret == IF r.obj.Data = <<>> THEN [r.obj EXCEPT !.Data = Ptr(EmptyData)] ELSE r.obj
         IN  [next |-> "done", secret |-> secret, result |-> Result(Ptr(secret), FALSE, Nil)]

\* getOrCreateConfigSecret from the return of c.Get on, up to the call of
\* c.Create or to its return.
AfterGet(nsn, r) ==
    IF r.err # Nil
    THEN IF IsNotFound(r.err)
         THEN [next |-> "c.Create", secret |-> [r.obj EXCEPT !.Name = nsn.Name, !.Namespace = nsn.Namespace], result |-> NoResult]
         ELSE [next |-> "done", secret |-> r.obj, result |-> Result(<<>>, FALSE, r.err)]
    ELSE LET secret == IF r.obj.Data = <<>> THEN [r.obj EXCEPT !.Data = Ptr(EmptyData)] ELSE r.obj
         IN  [next |-> "done", secret |-> secret, result |-> Result(Ptr(secret), FALSE, Nil)]

\* errors.IsAlreadyExists
IsAlreadyExists(err) == err # Nil /\ err[Len(err)] = " already exists"

\* Plausible slip: a create that lost to another creator counts as a success.
AfterCreate_SwallowsConflict(secret, err) ==
    IF err # Nil /\ ~IsAlreadyExists(err)
    THEN Result(<<>>, FALSE, err)
    ELSE Result(Ptr(secret), ~IsAlreadyExists(err), Nil)

\* getOrCreateConfigSecret from the return of c.Create on.
AfterCreate(secret, err) ==
    IF err # Nil
    THEN Result(<<>>, FALSE, err)
    ELSE Result(Ptr(secret), TRUE, Nil)

\* A call of c.Get or c.Create as the caller made it, and the error it got.
StoreCall(verb, nsn, data, err) == [verb |-> verb, nsn |-> nsn, data |-> data, err |-> err]

\* A finished call of getOrCreateConfigSecret.
Finished(nsn, res) == [nsn |-> nsn, result |-> res]

\* The manager runs; the store holds at most one secret of each name, and no
\* call of getOrCreateConfigSecret has been made.
InitSecret ==
    /\ controllers = <<>>
    /\ rpc = "running"
    /\ resolved = <<>>
    /\ mgrControllers = {}
    /\ runErr = Nil
    /\ mgrStarted = TRUE
    /\ AdmissionIdle
    /\ \E held \in SUBSET TargetNsns : \E data \in [held -> StoredData] :
          store = {ConfigSecret(n.Name, n.Namespace, data[n]) : n \in held}
    /\ spc = [a \in Callers |-> "idle"]
    /\ targetNsn = [a \in Callers |-> NamespacedName("", "")]
    /\ secretObj = [a \in Callers |-> NewSecret]
    /\ storeCalls = [a \in Callers |-> <<>>]
    /\ result = [a \in Callers |-> NoResult]
    /\ earlier = [a \in Callers |-> <<>>]

\* getOrCreateConfigSecret is called (after the caller's last call, if any,
\* has returned) and runs up to its call of c.Get.
GetOrCreateConfigSecret(a) ==
    /\ spc[a] \in {"idle", "done"}
    /\ LET past == IF spc[a] = "done" THEN Append(earlier[a], Finished(targetNsn[a], result[a])) ELSE earlier[a]
       IN  /\ Len(past) < MaxCalls
           /\ earlier' = [earlier EXCEPT ![a] = past]
    /\ \E nsn \in TargetNsns : targetNsn' = [targetNsn EXCEPT ![a] = nsn]
    /\ spc' = [spc EXCEPT ![a] = "c.Get"]
    /\ secretObj' = [secretObj EXCEPT ![a] = NewSecret]
    /\ storeCalls' = [storeCalls EXCEPT ![a] = <<>>]
    /\ result' = [result EXCEPT ![a] = NoResult]
    /\ UNCHANGED <<mgrVars, admVars, store>>

\* c.Get returns, and getOrCreateConfigSecret runs up to c.Create or returns.
GetReturns(a) ==
    /\ spc[a] = "c.Get"
    /\ \E r \in ClientGetReturns(store, targetNsn[a], secretObj[a]) :
          LET s == AfterGet(targetNsn[a], r)
          IN  /\ spc' = [spc EXCEPT ![a] = s.next]
              /\ secretObj' = [secretObj EXCEPT ![a] = s.secret]
              /\ result' = [result EXCEPT ![a] = s.result]
              /\ storeCalls' = [storeCalls EXCEPT ![a] = Append(@, StoreCall("Get", targetNsn[a], <<>>, r.err))]
    /\ UNCHANGED <<mgrVars, admVars, store, targetNsn, earlier>>

\* c.Create returns, and getOrCreateConfigSecret returns.
CreateReturns(a) ==
    /\ spc[a] = "c.Create"
    /\ \E r \in ClientCreateReturns(store, secretObj[a]) :
          /\ store' = r.objects
          /\ spc' = [spc EXCEPT ![a] = "done"]
          /\ result' = [result EXCEPT ![a] = AfterCreate(secretObj[a], r.err)]
          /\ storeCalls' = [storeCalls EXCEPT ![a] = Append(@, StoreCall("Create", NamespacedName(secretObj[a].Namespace, secretObj[a].Name), secretObj[a].Data, r.err))]
    /\ UNCHANGED <<mgrVars, admVars, secretObj, targetNsn, earlier>>

NextSecret ==
    \E a \in Callers :
       \/ GetOrCreateConfigSecret(a)
       \/ GetReturns(a)
       \/ CreateReturns(a)

SpecSecret == InitSecret /\ [][NextSecret]_vars

----------------------------------------------------------------------------
\* Properties of the start-up walk (SpecManager)

\* The loop of Run is over: it ran to its end or Run returned from inside it.
LoopOver == rpc # "loop" \/ Len(resolved) = Len(controllers)

\* Some iteration of the loop got an error from MaybeSetupWithManager.
LoopFailed == \E i \in 1..Len(resolved) : resolved[i].err # Nil

\* The walk has just ended: the loop ran to its end, or Run returned from it.
WalkEnded == LoopFailed \/ (rpc = "loop" /\ Len(resolved) = Len(controllers))

\* The number of SetupWithManager calls the first n iterations made.
RECURSIVE SetupCalls(_)
SetupCalls(n) == IF n = 0 THEN 0 ELSE resolved[n].setup + SetupCalls(n - 1)

\* C1: every resolution of the walk follows the enablement table: Disabled
\* invokes neither the AutoHandler nor SetupWithManager and returns nil; Auto
\* whose AutoHandler answers false never invokes SetupWithManager and returns
\* nil; Auto whose AutoHandler answers true, and Enabled, invoke
\* SetupWithManager exactly once.  A finished walk over one Disabled and one
\* Enabled registration made exactly one install call, the Enabled one's.
C1_EnablementTable ==
    /\ \A i \in 1..Len(resolved) :
          LET c == controllers[i]
              r == resolved[i]
          IN  /\ c.IsEnabled = EnablementStatusDisabled => r = Resolution(0, 0, Nil)
              /\ (c.IsEnabled = EnablementStatusAuto /\ c.AutoHandler = "false") =>
                    r.setup = 0 /\ r.err = Nil
              /\ (c.IsEnabled = EnablementStatusAuto /\ c.AutoHandler = "true") => r.setup = 1
              /\ c.IsEnabled = EnablementStatusEnabled => r.setup = 1
    /\ (/\ LoopOver
        /\ Len(controllers) = 2
        /\ {controllers[1].IsEnabled, controllers[2].IsEnabled} = {EnablementStatusDisabled, EnablementStatusEnabled}) =>
          /\ SetupCalls(Len(resolved)) = 1
          /\ \E i \in 1..Len(resolved) :
                controllers[i].IsEnabled = EnablementStatusEnabled /\ resolved[i].setup = 1
          /\ mgrControllers \subseteq {Name(controllers[i]) : i \in {j \in 1..2 : controllers[j].IsEnabled = EnablementStatusEnabled}}

\* A finished walk over a Disabled and then an Enabled registration.
C1_Witness ==
    /\ Len(controllers) = 2
    /\ Len(resolved) = 2
    /\ controllers[1].IsEnabled = EnablementStatusDisabled
    /\ controllers[1].AutoHandler = "true"
    /\ controllers[2].IsEnabled = EnablementStatusEnabled
    /\ mgrControllers = {Name(controllers[2])}

\* C2: a ControllerDef in Auto mode without an AutoHandler fails resolution:
\* MaybeSetupWithManager returns the "'auto' enablement not supported" error
\* and invokes nothing; the controller is not installed, and the walk does not
\* pass over it: Run has returned a non-nil error and the manager never starts.
C2_AutoWithoutHandlerFails ==
    \A i \in 1..Len(resolved) :
       LET c == controllers[i]
           r == resolved[i]
       IN  (c.IsEnabled = EnablementStatusAuto /\ c.AutoHandler = AutoHandlerNil) =>
              /\ r.err = Errorf(<<"'auto' enablement not supported for controller ">> \o Quoted(Name(c)))
              /\ r.setup = 0
              /\ r.auto = 0
              /\ Name(c) \notin mgrControllers
              /\ i = Len(resolved)
              /\ rpc = "returned"
              /\ runErr # Nil
              /\ ~mgrStarted

\* The walk reached an Auto registration without AutoHandler after an install.
C2_Witness ==
    /\ Len(resolved) >= 2
    /\ controllers[Len(resolved)].IsEnabled = EnablementStatusAuto
    /\ controllers[Len(resolved)].AutoHandler = AutoHandlerNil
    /\ mgrControllers # {}

\* C3: Run resolves the registrations in list order and stops at the first
\* error: only the last resolution made can carry an error, and once it does
\* Run has returned that error under "unable to create controller <name>: ",
\* with the failing controller's name, and the manager is never started.
C3_FailFast ==
    /\ \A i \in 1..Len(resolved) : resolved[i] = MaybeSetupWithManager(controllers[i])
    /\ \A i \in 1..Len(resolved) : resolved[i].err # Nil => i = Len(resolved)
    /\ LoopFailed =>
          LET f == Len(resolved)
          IN  /\ rpc = "returned"
              /\ ~mgrStarted
              /\ runErr = Errorf(<<"unable to create controller ">> \o Quoted(Name(controllers[f])) \o <<": ">> \o ErrorText(resolved[f].err))
    /\ mgrStarted => Len(resolved) = Len(controllers) /\ ~LoopFailed

\* Run returned at a failing registration that has an installed one before it
\* and an unresolved one after it.
C3_Witness ==
    /\ rpc = "returned"
    /\ Len(resolved) = 2
    /\ Len(controllers) = 3
    /\ resolved[2].err # Nil
    /\ mgrControllers = {Name(controllers[1])}
    /\ controllers[3].IsEnabled = EnablementStatusEnabled

\* The same ControllerDef, statically enabled.
AsEnabled(c) == [c EXCEPT !.IsEnabled = EnablementStatusEnabled]

\* C4: an Auto registration whose AutoHandler answers true is installed as
\* the Enabled registration of the same target is: one SetupWithManager call,
\* and the same result (nil or the install's error); the Enabled mode never
\* consults the AutoHandler.
C4_AutoTrueAsEnabled ==
    \A i \in 1..Len(resolved) :
       LET c == controllers[i]
           r == resolved[i]
           e == MaybeSetupWithManager(AsEnabled(c))
       IN  /\ (c.IsEnabled = EnablementStatusAuto /\ c.AutoHandler = "true") =>
                 /\ r.setup = 1
                 /\ r.setup = e.setup
                 /\ r.err = e.err
                 /\ r.err = SetupWithManager(c.Controller)
           /\ c.IsEnabled = EnablementStatusEnabled =>
                 /\ r.auto = 0
                 /\ r.setup = 1
                 /\ r.err = SetupWithManager(c.Controller)

\* An Auto registration with a true AutoHandler whose install failed, after
\* an Enabled one whose install succeeded.
C4_Witness ==
    \E i, j \in 1..Len(resolved) :
       /\ controllers[i].IsEnabled = EnablementStatusEnabled
       /\ controllers[i].AutoHandler # AutoHandlerNil
       /\ resolved[i].err = Nil
       /\ controllers[j].IsEnabled = EnablementStatusAuto
       /\ controllers[j].AutoHandler = "true"
       /\ resolved[j].err # Nil

\* The list in the order p, a permutation of its indices.
Reordered(list, p) == [i \in 1..Len(list) |-> list[p[i]]]

Orderings == Permutations(1..Len(controllers))

\* C5 as stated: every ordering of the registrations leaves the same set of
\* controllers installed in the manager as this walk did.
C5_Original ==
    WalkEnded =>
       \A p \in Orderings :
          RunLoop(Reordered(controllers, p), 1, {}).mgr = mgrControllers

\* C5, amended: every ordering of the registrations fails if and only if this
\* walk failed, and the orderings in which the walk does not fail all leave
\* the same set of controllers installed in the manager.
C5_OrderIndependent ==
    WalkEnded =>
       \A p \in Orderings :
          LET w == RunLoop(Reordered(controllers, p), 1, {})
          IN  /\ (w.err # Nil) = LoopFailed
              /\ w.err = Nil => w.mgr = mgrControllers

\* A walk over three registrations that ran through, one of them skipped.
C5_Witness ==
    /\ Len(controllers) = 3
    /\ Len(resolved) = 3
    /\ rpc = "loop"
    /\ ~LoopFailed
    /\ Cardinality(mgrControllers) = 2
    /\ controllers[2].IsEnabled = EnablementStatusDisabled

----------------------------------------------------------------------------
\* Properties of the admission validator (SpecAdmission)

\* The caller's call of the operation has returned.
Returned(a, op) == vpc[a] = "done" /\ call[a].op = op

\* The caller's call of the operation is in flight or has returned.
Called(a, op) == vpc[a] # "idle" /\ call[a].op = op

\* C6: ValidateConsumer with a non-empty username issues one lookup, by that
\* username, and maps what the lookup returns: not-found to (true, "", nil);
\* a consumer to (false, "consumer already exists", nil); any other failure
\* to a non-nil error with no rejection reason.
C6_ConsumerLookupMapping ==
    \A a \in active :
       (Called(a, "ValidateConsumer") /\ call[a].consumer.Username # "") =>
          /\ remoteCalls[a] = <<ConsumersGet(call[a].consumer.Username)>>
          /\ storeReads[a] = <<>>
          /\ vpc[a] = "done" =>
                /\ Len(replies[a].get) = 1
                /\ LET r == replies[a].get[1]
                   IN  /\ IsNotFoundErr(r.err) => outcome[a] = Outcome(TRUE, <<>>, Nil)
                       /\ (r.err = Nil /\ r.c # <<>>) =>
                             outcome[a] = Outcome(FALSE, <<"consumer already exists">>, Nil)
                       /\ (r.err # Nil /\ ~IsNotFoundErr(r.err)) =>
                             /\ outcome[a].err # Nil
                             /\ outcome[a].err = Errorf(<<"fetching consumer from Kong: ">> \o ErrorText(r.err))
                             /\ outcome[a].reason = <<>>
                             /\ ~outcome[a].valid

\* ValidateConsumer("alice") returned after its lookup failed on the
\* transport.
C6_Witness ==
    \E a \in active :
       /\ Returned(a, "ValidateConsumer")
       /\ call[a].consumer.Username = "alice"
       /\ replies[a].get # <<>>
       /\ replies[a].get[1].err = Errorf(<<"dial tcp 127.0.0.1:8001: connection refused">>)

\* C7: ValidateConsumer with an empty username returns
\* (false, "username cannot be empty", nil) and issues no remote call.
C7_EmptyUsername ==
    \A a \in active :
       (Called(a, "ValidateConsumer") /\ call[a].consumer.Username = "") =>
          /\ vpc[a] = "done"
          /\ outcome[a] = Outcome(FALSE, <<"username cannot be empty">>, Nil)
          /\ remoteCalls[a] = <<>>
          /\ replies[a] = NoReplies

\* ValidateConsumer returned for an empty username.
C7_Witness ==
    \E a \in active :
       /\ Returned(a, "ValidateConsumer")
       /\ call[a].consumer.Username = ""

\* The call has issued no remote request and read no secret, and if it has
\* returned, it returned invalid with a reason and a nil error.
RejectedLocally(a) ==
    /\ remoteCalls[a] = <<>>
    /\ storeReads[a] = <<>>
    /\ vpc[a] = "done"
    /\ ~outcome[a].valid
    /\ outcome[a].reason # <<>>
    /\ outcome[a].err = Nil

\* C8 as stated: a plugin with an empty name, and a plugin with both its raw
\* Config and its ConfigFrom non-empty, is rejected locally.
C8_Original ==
    \A a \in active :
       Called(a, "ValidatePlugin") =>
          LET k == call[a].k8sPlugin
          IN  (k.PluginName = "" \/ (k.Config # <<>> /\ k.ConfigFrom # ZeroSecretValue)) =>
                 RejectedLocally(a)

\* C8, amended: a plugin with an empty name, and a plugin with ConfigFrom set
\* whose raw Config parses to a non-empty configuration, is rejected locally:
\* invalid with a non-empty reason and a nil error, no remote request issued
\* and the referenced secret not read.  The request is submitted only by a
\* call whose local checks passed, after any read of the secret.
C8_LocalChecksFirst ==
    \A a \in active :
       Called(a, "ValidatePlugin") =>
          LET k == call[a].k8sPlugin
              parsedNonEmpty ==
                 /\ replies[a].parse # <<>>
                 /\ replies[a].parse[1].err = Nil
                 /\ Cardinality(replies[a].parse[1].config) > 0
          IN  /\ (k.PluginName = "" \/ (parsedNonEmpty /\ k.ConfigFrom # ZeroSecretValue)) =>
                    RejectedLocally(a)
              /\ remoteCalls[a] # <<>> =>
                    /\ k.PluginName # ""
                    /\ replies[a].parse[1].err = Nil
                    /\ ~(parsedNonEmpty /\ k.ConfigFrom # ZeroSecretValue)
                    /\ k.ConfigFrom # ZeroSecretValue =>
                          /\ Len(storeReads[a]) = 1
                          /\ Len(replies[a].secret) = 1
                          /\ replies[a].secret[1].err = Nil

\* ValidatePlugin returned for a plugin with ConfigFrom set whose raw Config
\* parsed to a non-empty configuration.
C8_Witness ==
    \E a \in active :
       /\ Returned(a, "ValidatePlugin")
       /\ call[a].k8sPlugin.PluginName # ""
       /\ call[a].k8sPlugin.ConfigFrom # ZeroSecretValue
       /\ replies[a].parse # <<>>
       /\ replies[a].parse[1].config # {}
       /\ outcome[a].reason = <<"plugin cannot use both Config and ConfigFrom">>

C10_CompletedResponseIsValid ==
    \A a \in active :
       (Returned(a, "ValidatePlugin") /\ replies[a].do # <<>>) =>
          LET r == replies[a].do[1]
          IN  (r.err = Nil /\ r.resp # <<>>) => outcome[a] = Outcome(TRUE, <<>>, Nil)

\* ValidatePlugin returned after a 400 response to its request.
C10_Witness ==
    \E a \in active :
       /\ Returned(a, "ValidatePlugin")
       /\ replies[a].do # <<>>
       /\ replies[a].do[1].resp # <<>>
       /\ replies[a].do[1].resp[1].StatusCode = 400

\* C11: a ValidatePlugin call (of a named plugin) with ConfigFrom set and an
\* empty raw Config reads the referenced secret, in the plugin's namespace,
\* before it submits anything: no request is out while the read is pending,
\* and a request that is out carries the configuration the read returned.  If
\* the read fails, the call returns that failure as a non-nil error, not
\* valid, and has issued no remote request.
C11_SecretResolvedFirst ==
    \A a \in active :
       LET k == call[a].k8sPlugin
       IN  (/\ Called(a, "ValidatePlugin")
            /\ k.PluginName # ""
            /\ k.ConfigFrom # ZeroSecretValue
            /\ k.Config = <<>>) =>
              /\ storeReads[a] = <<[secretValue |-> k.ConfigFrom, namespace |-> k.Namespace]>>
              /\ vpc[a] = "SecretToConfiguration" => remoteCalls[a] = <<>> /\ replies[a].secret = <<>>
              /\ vpc[a] # "SecretToConfiguration" => Len(replies[a].secret) = 1
              /\ remoteCalls[a] # <<>> =>
                    /\ replies[a].secret[1].err = Nil
                    /\ Len(remoteCalls[a]) = 1
                    /\ remoteCalls[a][1].body[1].Config = replies[a].secret[1].config
              /\ (replies[a].secret # <<>> /\ replies[a].secret[1].err # Nil) =>
                    /\ vpc[a] = "done"
                    /\ ~outcome[a].valid
                    /\ outcome[a].err # Nil
                    /\ outcome[a].err = replies[a].secret[1].err
                    /\ remoteCalls[a] = <<>>

\* ValidatePlugin returned after the read of the referenced secret failed.
C11_Witness ==
    \E a \in active :
       /\ Returned(a, "ValidatePlugin")
       /\ call[a].k8sPlugin.Config = <<>>
       /\ call[a].k8sPlugin.ConfigFrom = [Secret |-> "plugin-conf", Key |-> "rate-limiting"]
       /\ replies[a].secret # <<>>
       /\ replies[a].secret[1].err # Nil

\* The Data of the secret the caller's ValidateCredential was called with.
CredentialData(a) == call[a].secret.Data

\* The caller's ValidateCredential has returned for a secret that carries the
\* credential type marker.
ReturnedTyped(a) == Returned(a, "ValidateCredential") /\ "kongCredType" \in DOMAIN CredentialData(a)

\* The positions, in the declared order of the required fields, of those that
\* are no key of data.
MissingAt(required, data) == {i \in 1..Len(required) : required[i] \notin DOMAIN data}

\* The j-th least member of a set of positions.
NthOf(positions, j) == CHOOSE i \in positions : Cardinality({x \in positions : x <= i}) = j

\* C12: for a secret of a credential type in the table, ValidateCredential looks
\* at which keys are there, not at their values: it returns (true, "", nil)
\* exactly when every required field of the type is a key of the secret, and
\* otherwise (false, reason, nil), the reason being "missing required field(s): "
\* and then the required fields that are no key, in the declared order,
\* with ", " between them; a basic-auth secret with username alone gives
\* "missing required field(s): password".
C12_MissingFieldsByPresence ==
    \A a \in active :
       (ReturnedTyped(a) /\ CredentialData(a)["kongCredType"] \in DOMAIN CredTypeToFields) =>
          LET data == CredentialData(a)
              required == CredTypeToFields[data["kongCredType"]]
              missing == MissingAt(required, data)
              n == Cardinality(missing)
              out == outcome[a]
          IN  /\ out.err = Nil
              /\ out.valid <=> missing = {}
              /\ out.valid => out.reason = <<>>
              /\ ~out.valid =>
                    /\ Len(out.reason) = 2 * n
                    /\ out.reason[1] = "missing required field(s): "
                    /\ \A j \in 1..n : out.reason[2 * j] = required[NthOf(missing, j)]
                    /\ \A j \in 1..(n - 1) : out.reason[2 * j + 1] = ", "
              /\ (data["kongCredType"] = "basic-auth" /\ DOMAIN data = {"kongCredType", "username"}) =>
                    out = Outcome(FALSE, <<"missing required field(s): ", "password">>, Nil)

\* A jwt secret whose only required key is key, with an empty value: the three
\* other required fields are reported, key is not.
C12_Witness ==
    \E a \in active :
       /\ ReturnedTyped(a)
       /\ CredentialData(a)["kongCredType"] = "jwt"
       /\ DOMAIN CredentialData(a) = {"kongCredType", "key", "note"}
       /\ CredentialData(a)["key"] = ""
       /\ outcome[a] = Outcome(FALSE, <<"missing required field(s): ", "algorithm", ", ", "rsa_public_key", ", ", "secret">>, Nil)

\* The credential type identifiers of the Field-Requirement Matrix.
MatrixTypes ==
    {"key-auth", "keyauth_credential", "basic-auth", "basicauth_credential",
     "hmac-auth", "hmacauth_credential", "jwt", "jwt_secret", "oauth2", "acl", "mtls-auth"}

\* C13: for a secret whose credential type is not, letter for letter, an
\* identifier of the matrix, ValidateCredential returns invalid with a nil error
\* and the reason "invalid credential type: " followed by the type as given,
\* whatever other keys the secret has.
C13_UnknownTypeInvalid ==
    \A a \in active :
       (ReturnedTyped(a) /\ CredentialData(a)["kongCredType"] \notin MatrixTypes) =>
          outcome[a] = Outcome(FALSE, <<"invalid credential type: ", CredentialData(a)["kongCredType"]>>, Nil)

\* A secret of type "Basic-Auth" with both fields basic-auth needs is rejected
\* for its type.
C13_Witness ==
    \E a \in active :
       /\ ReturnedTyped(a)
       /\ CredentialData(a)["kongCredType"] = "Basic-Auth"
       /\ {"username", "password"} \subseteq DOMAIN CredentialData(a)
       /\ outcome[a] = Outcome(FALSE, <<"invalid credential type: ", "Basic-Auth">>, Nil)

\* C14: a secret without the key kongCredType is passed by ValidateCredential
\* as (true, "", nil), whatever other keys it has; and for no secret does
\* ValidateCredential send a request to Kong, read the store or wait for a
\* collaborator.
C14_NoMarkerPassThrough ==
    \A a \in active :
       Called(a, "ValidateCredential") =>
          /\ vpc[a] = "done"
          /\ remoteCalls[a] = <<>>
          /\ storeReads[a] = <<>>
          /\ replies[a] = NoReplies
          /\ "kongCredType" \notin DOMAIN CredentialData(a) => outcome[a] = Outcome(TRUE, <<>>, Nil)

\* A secret with username alone and no marker is passed, though a basic-auth
\* credential would lack its password.
C14_Witness ==
    \E a \in active :
       /\ Returned(a, "ValidateCredential")
       /\ DOMAIN CredentialData(a) = {"username"}
       /\ outcome[a].valid
       /\ remoteCalls[a] = <<>>

\* The caller's call of one of the three validation operations has returned.
ReturnedAny(a) == vpc[a] = "done" /\ call[a].op \in {"ValidateConsumer", "ValidatePlugin", "ValidateCredential"}

\* C15 as stated: in every outcome the three operations return, the reason is
\* empty if and only if valid is true.
C15_Original ==
    \A a \in active :
       ReturnedAny(a) => (outcome[a].reason = <<>> <=> outcome[a].valid)

\* C15: in every outcome the three operations return with a nil error, the
\* reason is empty if and only if valid is true; an outcome with a non-nil
\* error is never valid, and its reason is empty when the consumer lookup or
\* the construction of the request failed.
C15_ReasonIffValidWithoutError ==
    \A a \in active :
       ReturnedAny(a) =>
          /\ outcome[a].err = Nil => (outcome[a].reason = <<>> <=> outcome[a].valid)
          /\ outcome[a].err # Nil => ~outcome[a].valid
          /\ (outcome[a].err # Nil /\ (replies[a].get # <<>> \/ replies[a].newRequest # <<>>)) => outcome[a].reason = <<>>

\* A consumer lookup has failed: the outcome is not valid, its reason is empty
\* and its error is not nil.
C15_Witness ==
    \E a \in active :
       /\ Returned(a, "ValidateConsumer")
       /\ ~outcome[a].valid
       /\ outcome[a].reason = <<>>
       /\ outcome[a].err # Nil

----------------------------------------------------------------------------
\* Properties of getOrCreateConfigSecret (SpecSecret)

\* The caller's call has made that call of the store and has its answer.
Made(a, i, verb) == Len(storeCalls[a]) >= i /\ storeCalls[a][i].verb = verb

\* The caller's read of the store reported not-found.
SawNotFound(a) == Made(a, 1, "Get") /\ IsNotFound(storeCalls[a][1].err)

\* The caller's create is answered, with success or with already-exists.
CreateAnswered(a) == Made(a, 2, "Create") /\ (storeCalls[a][2].err = Nil \/ IsAlreadyExists(storeCalls[a][2].err))

\* C16: two calls of getOrCreateConfigSecret for the same name can both read
\* not-found, and then both attempt the create; when the store answers both
\* creates, exactly one of them succeeds; a call whose create failed returns
\* (nil, false, the error of the create); and no call reads or creates twice.
C16_RaceSurfacesConflict ==
    /\ \A a \in Callers :
          /\ Len(storeCalls[a]) <= 2
          /\ Len(storeCalls[a]) >= 1 => storeCalls[a][1].verb = "Get"
          /\ Len(storeCalls[a]) = 2 => storeCalls[a][2].verb = "Create" /\ SawNotFound(a)
          /\ (spc[a] = "done" /\ SawNotFound(a)) => Made(a, 2, "Create")
          /\ (spc[a] = "done" /\ Made(a, 2, "Create") /\ storeCalls[a][2].err # Nil) =>
                result[a] = Result(<<>>, FALSE, storeCalls[a][2].err)
    /\ \A a, b \in Callers :
          (a # b /\ targetNsn[a] = targetNsn[b] /\ SawNotFound(a) /\ SawNotFound(b) /\ spc[a] = "done" /\ spc[b] = "done") =>
             /\ ~(storeCalls[a][2].err = Nil /\ storeCalls[b][2].err = Nil)
             /\ (CreateAnswered(a) /\ CreateAnswered(b)) => (storeCalls[a][2].err = Nil \/ storeCalls[b][2].err = Nil)

\* Both callers read not-found for the same name; one created the secret, the
\* other got already-exists and returned it.
C16_Witness ==
    \E a, b \in Callers :
       /\ a # b
       /\ targetNsn[a] = targetNsn[b]
       /\ spc[a] = "done" /\ spc[b] = "done"
       /\ SawNotFound(a) /\ SawNotFound(b)
       /\ result[a].created /\ result[a].err = Nil
       /\ IsAlreadyExists(result[b].err) /\ result[b].secret = <<>> /\ ~result[b].created

\* C17: every secret getOrCreateConfigSecret returns together with a nil error
\* has a Data map that is not nil.
C17_DataNonNil ==
    \A a \in Callers :
       (spc[a] = "done" /\ result[a].err = Nil) =>
          /\ result[a].secret # <<>>
          /\ result[a].secret[1].Data # <<>>

\* C18: when the read of getOrCreateConfigSecret reports not-found, the call
\* asks the store to create a secret without contents at the requested name and
\* namespace, and no other; when the create succeeds the store holds that
\* secret and the call returns it with created = true; and created is true only
\* in a call whose own create succeeded.
C18_CreatesAtTarget ==
    \A a \in Callers :
       /\ (SawNotFound(a) /\ spc[a] = "done") =>
             /\ storeCalls[a][2] = StoreCall("Create", targetNsn[a], <<>>, storeCalls[a][2].err)
             /\ storeCalls[a][2].err = Nil =>
                   /\ result[a] = Result(Ptr(ConfigSecret(targetNsn[a].Name, targetNsn[a].Namespace, <<>>)), TRUE, Nil)
                   /\ Stored(store, targetNsn[a]) = {ConfigSecret(targetNsn[a].Name, targetNsn[a].Namespace, <<>>)}
       /\ (spc[a] = "done" /\ result[a].created) =>
             /\ Made(a, 2, "Create")
             /\ storeCalls[a][2].err = Nil
             /\ result[a].err = Nil

\* A call for default/kong-config read not-found, created the secret there and
\* returned created = true, while the secret of the same name in kong-system
\* is as it was.
C18_Witness ==
    \E a \in Callers :
       /\ spc[a] = "done"
       /\ targetNsn[a] = NamespacedName("default", "kong-config")
       /\ SawNotFound(a)
       /\ result[a].created
       /\ ConfigSecret("kong-config", "default", <<>>) \in store
       /\ ConfigSecret("kong-config", "kong-system", Ptr(StagedData)) \in store

\* The caller's call has returned and the call it made before was for the
\* same name and returned a secret.
Repeated(a) ==
    /\ spc[a] = "done"
    /\ earlier[a] # <<>>
    /\ earlier[a][Len(earlier[a])].nsn = targetNsn[a]
    /\ earlier[a][Len(earlier[a])].result.err = Nil

\* The result of the call the caller made before its present one.
Before(a) == earlier[a][Len(earlier[a])].result

\* C19: a call of getOrCreateConfigSecret that follows a successful call of the
\* same caller for the same name finds the secret (no secret is deleted or
\* overwritten in between): it attempts no create, and when its read succeeds
\* it returns created = false and the contents the call before returned, an
\* empty map if the call before created the secret; and the store holds one
\* secret of that name, and never two of any name.
C19_IdempotentOnHappyPath ==
    /\ \A nsn \in TargetNsns : Cardinality(Stored(store, nsn)) <= 1
    /\ \A a \in Callers :
          /\ (spc[a] = "done" /\ result[a].err = Nil) => Cardinality(Stored(store, targetNsn[a])) = 1
          /\ Repeated(a) =>
                /\ Len(storeCalls[a]) = 1
                /\ ~IsNotFound(storeCalls[a][1].err)
                /\ result[a].err = storeCalls[a][1].err
                /\ result[a].err = Nil =>
                      /\ ~result[a].created
                      /\ ~Before(a).created => result[a].secret = Before(a).secret
                      /\ Before(a).created => result[a].secret = Ptr([Before(a).secret[1] EXCEPT !.Data = Ptr(EmptyData)])

\* A caller has twice asked for a stored secret with a staged configuration
\* and got it both times, with created = false.
C19_Witness ==
    \E a \in Callers :
       /\ Repeated(a)
       /\ ~Before(a).created
       /\ Before(a).secret # <<>>
       /\ Before(a).secret[1].Data = Ptr(StagedData)
       /\ result[a] = Before(a)

----------------------------------------------------------------------------
\* Properties of concurrent validations (SpecConcurrent)

\* What the call c does when it runs from its start to its end with nothing
\* else running, its collaborators answering rs: the outcome it returns, the
\* requests it sends to Kong and the secrets it reads.
Alone(c, rs) ==
    CASE c.op = "ValidateConsumer" ->
            LET s == ConsumerStart(c.consumer)
            IN  [out |-> IF s.next = "done" THEN s.out ELSE ConsumerFinish(rs.get[1]), remote |-> s.remote, read |-> s.read]
      [] c.op = "ValidatePlugin" ->
            LET parsed == IF rs.parse = <<>> THEN [config |-> {}, err |-> Nil] ELSE rs.parse[1]
                s0 == PluginStart(c.k8sPlugin, parsed)
                s1 == IF s0.next = "SecretToConfiguration" THEN PluginSecret(s0.plugin, rs.secret[1]) ELSE s0
                s2 == IF s1.next = "NewRequest" THEN PluginRequest(c.k8sPlugin, s1.plugin, rs.newRequest[1]) ELSE s1
            IN  [out |-> IF s2.next = "Client.Do" THEN PluginFinish(rs.do[1]) ELSE s2.out, remote |-> s2.remote, read |-> s0.read]
      [] c.op = "ValidateCredential" ->
            [out |-> ValidateCredentialResult(c.secret, CredTypeToFields), remote |-> <<>>, read |-> <<>>]

\* The request is a lookup, or the submission of a plugin for validation.
LookupOrDryRun(req) ==
    \/ req.method = "GET"
    \/ req.method = "POST" /\ req.path = <<"/schemas/plugins/validate">>

\* C20: in every interleaving of concurrent calls of ValidateConsumer,
\* ValidatePlugin and ValidateCredential, a call that has returned has returned
\* the outcome, and sent the requests and read the secrets, that it does when
\* run alone with the same replies of its collaborators; the table of required
\* fields is as it was initialised; and every request sent to Kong is a lookup
\* or a submission to the schema validation endpoint.
C20_ConcurrentAsAlone ==
    /\ credTypeToFields = CredTypeToFields
    /\ \A a \in active :
          /\ \A i \in 1..Len(remoteCalls[a]) : LookupOrDryRun(remoteCalls[a][i])
          /\ vpc[a] = "done" =>
                LET alone == Alone(call[a], replies[a])
                IN  /\ outcome[a] = alone.out
                    /\ remoteCalls[a] = alone.remote
                    /\ storeReads[a] = alone.read

\* One caller's ValidatePlugin has read its secret, submitted the plugin and
\* returned while the other caller's consumer lookup is in flight.
C20_Witness ==
    \E a, b \in active :
       /\ a # b
       /\ Returned(a, "ValidatePlugin")
       /\ storeReads[a] # <<>>
       /\ replies[a].do # <<>>
       /\ vpc[b] = "Consumers.Get"

\* The step adds to the store the secret without contents of the name the
\* caller asked for, after the caller's read reported not-found, and leaves
\* every secret that was in the store as it was.
CreatesOnlyAfterNotFound(a) ==
    /\ spc[a] = "c.Create"
    /\ SawNotFound(a)
    /\ Stored(store, targetNsn[a]) = {}
    /\ store' = store \cup {ConfigSecret(targetNsn[a].Name, targetNsn[a].Namespace, <<>>)}

\* The caller's read has failed, and not with not-found.
ReadFailed(a) == Made(a, 1, "Get") /\ storeCalls[a][1].err # Nil /\ ~IsNotFound(storeCalls[a][1].err)

\* A caller whose read succeeded or failed other than with not-found has made
\* no other call of the store and has returned: the error of the read with a
\* nil secret, or the stored secret, an empty map in place of a nil Data.
ReadPathReturns(a) ==
    /\ (Made(a, 1, "Get") /\ ~SawNotFound(a)) =>
          /\ Len(storeCalls[a]) = 1
          /\ spc[a] = "done"
    /\ ReadFailed(a) => result[a] = Result(<<>>, FALSE, storeCalls[a][1].err)
    /\ (Made(a, 1, "Get") /\ storeCalls[a][1].err = Nil) =>
          /\ result[a].err = Nil /\ ~result[a].created
          /\ \E o \in Stored(store, targetNsn[a]) :
                result[a].secret = Ptr(IF o.Data = <<>> THEN [o EXCEPT !.Data = Ptr(EmptyData)] ELSE o)

\* C21: getOrCreateConfigSecret changes the store only by creating the secret
\* of the requested name after its read reported not-found, and no secret that
\* is in the store is removed or changed; a call whose read succeeded or failed
\* otherwise makes no other call of the store, and in the failure case returns
\* (nil, false, the error of the read); a secret read with a nil Data is
\* returned with an empty map while the stored secret keeps its nil Data.
C21_WritesOnlyByCreate ==
    [][/\ store' # store => \E a \in Callers : CreatesOnlyAfterNotFound(a)
       /\ store \subseteq store'
       /\ \A a \in Callers : ReadPathReturns(a)']_vars

\* One caller's read timed out and it returned that error; the other read a
\* secret stored with a nil Data and returned it with an empty map; the stored
\* secret still has its nil Data.
C21_Witness ==
    \E a, b \in Callers :
       /\ spc[a] = "done" /\ spc[b] = "done"
       /\ result[a] = Result(<<>>, FALSE, ServerTimeout)
       /\ Len(storeCalls[a]) = 1
       /\ Made(b, 1, "Get") /\ storeCalls[b][1].err = Nil
       /\ result[b].secret # <<>>
       /\ result[b].secret[1].Data = Ptr(EmptyData)
       /\ ConfigSecret(targetNsn[b].Name, targetNsn[b].Namespace, <<>>) \in store

----------------------------------------------------------------------------
\* Fail closed (SpecAdmission)

\* The reply (a record with the field err) is there and reports a failure.
Failed(reply) == reply # <<>> /\ reply[1].err # Nil

\* Some collaborator call of the caller's validation has failed: the consumer
\* lookup other than with not-found, the parsing of the raw configuration, the
\* resolution of the referenced secret, the building of the request, or its
\* transport.
CollaboratorFailed(a) ==
    \/ Failed(replies[a].get) /\ ~IsNotFoundErr(replies[a].get[1].err)
    \/ Failed(replies[a].parse)
    \/ Failed(replies[a].secret)
    \/ replies[a].newRequest # <<>> /\ replies[a].newRequest[1] # Nil
    \/ Failed(replies[a].do)

\* C22: no call of ValidateConsumer, ValidatePlugin or ValidateCredential
\* returns valid = true with a non-nil error; and a call during which a
\* collaborator call failed does not return valid = true, so never the accept
\* (true, "", nil).
C22_FailsClosed ==
    \A a \in active :
       ReturnedAny(a) =>
          /\ ~(outcome[a].valid /\ outcome[a].err # Nil)
          /\ CollaboratorFailed(a) =>
                /\ ~outcome[a].valid
                /\ outcome[a] # Outcome(TRUE, <<>>, Nil)

\* The secret of a plugin was resolved, the request was built, and its
\* transport failed: the plugin is not accepted.
C22_Witness ==
    \E a \in active :
       /\ Returned(a, "ValidatePlugin")
       /\ replies[a].secret # <<>>
       /\ Failed(replies[a].do)
       /\ CollaboratorFailed(a)
       /\ ~outcome[a].valid

====
